---- MODULE Spec2Model ----
(***************************************************************************)
(* PriorityQueue<T> of include/PriorityQueue.hpp (three-array revision):   *)
(* a binary max-heap held in three parallel arrays (items, priorities,     *)
(* insertion ids) that are grown and shrunk in steps of stepSize.          *)
(*                                                                         *)
(* The object is modelled functionally: a queue value is a record with one *)
(* field per data member, every private method is an operator from queue   *)
(* values to queue values, and every public method is an action that       *)
(* installs the result of the whole call in the variables.                 *)
(***************************************************************************)
EXTENDS Integers, Sequences, FiniteSets, TLC

VARIABLES mItems, mPriorities, mIds,
          mInitialCapacity, mStepSize, mStepSize2x,
          mCapacity, mSize, mNextId, mNumResizes,
          lastOp, lastArg, threw, prevSize, prevCapacity,
          nInserts, nPops, counting, phase, lastOut, runResizes,
          undefined, allocFails, other

\* allocFails: which allocate() call of its resize() ran out of memory in the
\* last insert (0: none); other: the second queue, where there is one
members == <<mItems, mPriorities, mIds, mInitialCapacity, mStepSize,
             mStepSize2x, mCapacity, mSize, mNextId, mNumResizes>>
history == <<lastOp, lastArg, threw, prevSize, prevCapacity,
             nInserts, nPops, counting, phase, lastOut, runResizes>>
vars == <<members, history, undefined, allocFails, other>>

----------------------------------------------------------------------------
(* Bounds of the model.                                                    *)

\* insert is not offered once it has been called this many times
MaxCalls == 6
\* clear() is not offered once numResizes has reached this value
MaxResizes == 3

\* size_t is modelled 4 bits wide: MAX_ID = numeric_limits<size_t>::max()
MAX_ID == 15

\* the (item, score) pairs offered to insert, and the two and the one that
\* are offered where the order among three is not at stake
Inputs == {<<"a", 0>>, <<"a", 1>>, <<"b", 1>>}
TwoInputs == {<<"a", 0>>, <<"b", 1>>}
SameInput == {<<"a", 0>>}
Items == {in[1] : in \in Inputs}
Priorities == {in[2] : in \in Inputs}
InitialCapacities == {1, 3}
StepSizes == {1, 2}

\* what a slot that holds no constructed object reads as in the model; the
\* only such read in the code, in sink(0) after the last node is popped,
\* compares slot 0 with itself, so that its outcome does not depend on it
Unconstructed == [item |-> "-", priority |-> 0, id |-> 0]
NoItem == Unconstructed.item
NoPriority == Unconstructed.priority
NoId == Unconstructed.id
NoNode == <<-1, -1>>
NoArg == <<"-", -1>>

\* the values the model draws for a member that is read without ever having
\* been written: both ends of the range of size_t
Indeterminate == {0, MAX_ID - 2, MAX_ID - 1, MAX_ID}

\* unsigned arithmetic of width size_t
Wrap(x) == x % (MAX_ID + 1)

----------------------------------------------------------------------------
(* The object as a value.                                                  *)

This ==
  [mItems |-> mItems, mPriorities |-> mPriorities, mIds |-> mIds,
   mInitialCapacity |-> mInitialCapacity, mStepSize |-> mStepSize,
   mStepSize2x |-> mStepSize2x, mCapacity |-> mCapacity, mSize |-> mSize,
   mNextId |-> mNextId, mNumResizes |-> mNumResizes]

allocateItems(n) == [i \in 0..(n - 1) |-> NoItem]
allocatePriorities(n) == [i \in 0..(n - 1) |-> NoPriority]
allocateIds(n) == [i \in 0..(n - 1) |-> NoId]

getSize(q) == q.mSize
getCapacity(q) == q.mCapacity
getNumResizes(q) == q.mNumResizes
empty(q) == getSize(q) = 0
top(q) == q.mItems[0]

parentIdxOf(i) == IF i > 0 THEN (i - 1) \div 2 ELSE i

\* leftIdxOf as it would be if it took index mSize for a child
leftIdxOf_offByOne(q, i) ==
  LET idx == 2 * i + 1 IN IF idx <= q.mSize THEN idx ELSE i

\* 2*i+1 and 2*i+2 are computed without reduction: i indexes an allocated
\* array whose length is at most MAX_ID, and is far below it in any build
leftIdxOf(q, i) ==
  LET idx == 2 * i + 1 IN IF idx < q.mSize THEN idx ELSE i

rightIdxOf(q, i) ==
  LET idx == 2 * i + 2 IN IF idx < q.mSize THEN idx ELSE i

greaterPriority(q, lhs, rhs) ==
  LET greater == q.mPriorities[lhs] > q.mPriorities[rhs]
      equalPriorityAndOlder ==
        q.mPriorities[lhs] = q.mPriorities[rhs] /\ q.mIds[lhs] < q.mIds[rhs]
  IN greater \/ equalPriorityAndOlder

\* swapNodes as it would be with the ids array left out of the exchange
swapNodes_idsLeftBehind(q, a, b) ==
  [q EXCEPT !.mItems = [@ EXCEPT ![a] = q.mItems[b], ![b] = q.mItems[a]],
            !.mPriorities = [@ EXCEPT ![a] = q.mPriorities[b],
                                      ![b] = q.mPriorities[a]]]

swapNodes(q, a, b) ==
  [q EXCEPT !.mItems = [@ EXCEPT ![a] = q.mItems[b], ![b] = q.mItems[a]],
            !.mPriorities = [@ EXCEPT ![a] = q.mPriorities[b],
                                      ![b] = q.mPriorities[a]],
            !.mIds = [@ EXCEPT ![a] = q.mIds[b], ![b] = q.mIds[a]]]

createNode(q, i, item, priority, id) ==
  [q EXCEPT !.mItems[i] = item, !.mPriorities[i] = priority, !.mIds[i] = id]

destroyNode(q, i) ==
  [q EXCEPT !.mItems[i] = NoItem, !.mPriorities[i] = NoPriority,
            !.mIds[i] = NoId]

\* destroyAllNodes as it would be if its loop started at index 1
destroyAllNodes_fromOne(q) ==
  [q EXCEPT !.mItems = [i \in DOMAIN @ |->
                          IF 0 < i /\ i < q.mSize THEN NoItem ELSE @[i]],
            !.mPriorities = [i \in DOMAIN @ |->
                               IF 0 < i /\ i < q.mSize THEN NoPriority
                               ELSE @[i]],
            !.mIds = [i \in DOMAIN @ |->
                        IF 0 < i /\ i < q.mSize THEN NoId ELSE @[i]]]

destroyAllNodes(q) ==
  [q EXCEPT !.mItems = [i \in DOMAIN @ |-> IF i < q.mSize THEN NoItem ELSE @[i]],
            !.mPriorities = [i \in DOMAIN @ |->
                               IF i < q.mSize THEN NoPriority ELSE @[i]],
            !.mIds = [i \in DOMAIN @ |-> IF i < q.mSize THEN NoId ELSE @[i]]]

\* resize as it would be if the insertion ids were not carried over
resize_idsNotCopied(q, newCapacity) ==
  [q EXCEPT
     !.mItems = [i \in 0..(newCapacity - 1) |->
                   IF i < q.mSize THEN q.mItems[i] ELSE NoItem],
     !.mPriorities = [i \in 0..(newCapacity - 1) |->
                        IF i < q.mSize THEN q.mPriorities[i] ELSE NoPriority],
     !.mIds = [i \in 0..(newCapacity - 1) |-> NoId],
     !.mCapacity = newCapacity,
     !.mNumResizes = @ + 1]

\* new arrays of newCapacity slots, the mSize live nodes copied index by
\* index, the old arrays released, numResizes counted
resize(q, newCapacity) ==
  [q EXCEPT
     !.mItems = [i \in 0..(newCapacity - 1) |->
                   IF i < q.mSize THEN q.mItems[i] ELSE NoItem],
     !.mPriorities = [i \in 0..(newCapacity - 1) |->
                        IF i < q.mSize THEN q.mPriorities[i] ELSE NoPriority],
     !.mIds = [i \in 0..(newCapacity - 1) |->
                 IF i < q.mSize THEN q.mIds[i] ELSE NoId],
     !.mCapacity = newCapacity,
     !.mNumResizes = @ + 1]

\* checkCapacity as it would be without the floor at mInitialCapacity
checkCapacity_noFloor(q) ==
  IF q.mCapacity >= q.mStepSize2x /\ q.mSize < Wrap(q.mCapacity - q.mStepSize2x)
  THEN resize(q, Wrap(q.mCapacity - q.mStepSize))
  ELSE q

\* checkCapacity as it would be without the hysteresis band: the arrays are
\* shrunk as soon as a whole step of them is unused
checkCapacity_noBand(q) ==
  IF q.mCapacity >= q.mStepSize /\ q.mSize <= Wrap(q.mCapacity - q.mStepSize)
  THEN LET newCapacity == Wrap(q.mCapacity - q.mStepSize)
       IN IF newCapacity >= q.mInitialCapacity
          THEN resize(q, newCapacity)
          ELSE q
  ELSE q

\* checkCapacity as it would be with a threshold of one step instead of two
checkCapacity_oneStep(q) ==
  IF q.mCapacity >= q.mStepSize /\ q.mSize < Wrap(q.mCapacity - q.mStepSize)
  THEN LET newCapacity == Wrap(q.mCapacity - q.mStepSize)
       IN IF newCapacity >= q.mInitialCapacity
          THEN resize(q, newCapacity)
          ELSE q
  ELSE q

\* checkCapacity as it would be if it shrank to one step above the size
checkCapacity_toFit(q) ==
  IF q.mCapacity >= q.mStepSize2x /\ q.mSize < Wrap(q.mCapacity - q.mStepSize2x)
  THEN LET newCapacity == Wrap(q.mSize + q.mStepSize)
       IN IF newCapacity >= q.mInitialCapacity
          THEN resize(q, newCapacity)
          ELSE q
  ELSE q

\* checkCapacity as it would be if it never shrank down to the initial
\* capacity itself
checkCapacity_strictFloor(q) ==
  IF q.mCapacity >= q.mStepSize2x /\ q.mSize < Wrap(q.mCapacity - q.mStepSize2x)
  THEN LET newCapacity == Wrap(q.mCapacity - q.mStepSize)
       IN IF newCapacity > q.mInitialCapacity
          THEN resize(q, newCapacity)
          ELSE q
  ELSE q

checkCapacity(q) ==
  IF q.mCapacity >= q.mStepSize2x /\ q.mSize < Wrap(q.mCapacity - q.mStepSize2x)
  THEN LET newCapacity == Wrap(q.mCapacity - q.mStepSize)
       IN IF newCapacity >= q.mInitialCapacity
          THEN resize(q, newCapacity)
          ELSE q
  ELSE q

\* consolidateIds() only throws; checkIdOverflow() reports whether it did
checkIdOverflow(q) == q.mNextId = MAX_ID /\ q.mSize < MAX_ID

\* the index sink(i) decides to exchange i with; i itself where it stops
destIdx(q, i) ==
  LET leftIdx == leftIdxOf(q, i)
      rightIdx == rightIdxOf(q, i)
  IN IF greaterPriority(q, rightIdx, leftIdx) THEN rightIdx
     ELSE IF greaterPriority(q, leftIdx, rightIdx) THEN leftIdx
     ELSE i

\* sink as it would be if the greater child had to outrank the node at i
RECURSIVE sink_regardsSelf(_, _)
sink_regardsSelf(q, i) ==
  LET leftIdx == leftIdxOf(q, i)
      rightIdx == rightIdxOf(q, i)
      best == IF greaterPriority(q, rightIdx, leftIdx) THEN rightIdx
              ELSE leftIdx
      dest == IF greaterPriority(q, best, i) THEN best ELSE i
  IN IF dest = i THEN q
     ELSE sink_regardsSelf(swapNodes(q, dest, i), dest)

RECURSIVE sink(_, _)
sink(q, i) ==
  LET dest == destIdx(q, i)
  IN IF dest = i THEN q ELSE sink(swapNodes(q, dest, i), dest)

\* the indices at which sink(i) reads the arrays: both arguments of each
\* greaterPriority() call it makes and of each swapNodes()
RECURSIVE ReadsOfSink(_, _)
ReadsOfSink(q, i) ==
  LET dest == destIdx(q, i)
  IN {leftIdxOf(q, i), rightIdxOf(q, i)} \cup
       (IF dest = i THEN {}
        ELSE {dest, i} \cup ReadsOfSink(swapNodes(q, dest, i), dest))

\* the indices at which swim(i) reads the arrays; greaterPriority() is not
\* called at the root
RECURSIVE ReadsOfSwim(_, _)
ReadsOfSwim(q, i) ==
  LET parentIdx == parentIdxOf(i)
  IN IF parentIdx = i THEN {}
     ELSE {i, parentIdx} \cup
            (IF greaterPriority(q, i, parentIdx)
             THEN ReadsOfSwim(swapNodes(q, parentIdx, i), parentIdx)
             ELSE {})

\* swim as it would be if it moved the node up by one level at most
swim_oneLevel(q, i) ==
  LET parentIdx == parentIdxOf(i)
  IN IF parentIdx # i /\ greaterPriority(q, i, parentIdx)
     THEN swapNodes(q, parentIdx, i)
     ELSE q

RECURSIVE swim(_, _)
swim(q, i) ==
  LET parentIdx == parentIdxOf(i)
  IN IF parentIdx # i /\ greaterPriority(q, i, parentIdx)
     THEN swim(swapNodes(q, parentIdx, i), parentIdx)
     ELSE q

\* insert as it would be if it grew one insert early (size + 1 = capacity)
insert_growsEarly(q, item, score) ==
  LET grown == IF Wrap(q.mSize + 1) >= q.mCapacity
               THEN resize(q, Wrap(q.mCapacity + q.mStepSize))
               ELSE q
  IN IF checkIdOverflow(grown)
     THEN [q |-> grown, threw |-> TRUE, undefined |-> FALSE]
     ELSE LET i == grown.mSize
              made == createNode(grown, i, item, score, grown.mNextId)
              counted == [made EXCEPT !.mNextId = Wrap(@ + 1),
                                      !.mSize = Wrap(@ + 1)]
          IN [q |-> swim(counted, i), threw |-> FALSE, undefined |-> FALSE]

\* insert as it would be if it did not count mNextId up
insert_reusesId(q, item, score) ==
  LET grown == IF q.mSize = q.mCapacity
               THEN resize(q, Wrap(q.mCapacity + q.mStepSize))
               ELSE q
  IN IF checkIdOverflow(grown)
     THEN [q |-> grown, threw |-> TRUE, undefined |-> FALSE]
     ELSE LET i == grown.mSize
              made == createNode(grown, i, item, score, grown.mNextId)
              counted == [made EXCEPT !.mSize = Wrap(@ + 1)]
          IN [q |-> swim(counted, i), threw |-> FALSE, undefined |-> FALSE]

\* the queue after insert(item, score) and whether the call threw.  When
\* mCapacity + mStepSize wraps below mSize, resize() copies mSize nodes into
\* arrays of fewer slots: the behaviour of the call is undefined
insert(q, item, score) ==
  LET newCapacity == Wrap(q.mCapacity + q.mStepSize)
      grown == IF q.mSize = q.mCapacity THEN resize(q, newCapacity) ELSE q
  IN IF q.mSize = q.mCapacity /\ newCapacity < q.mSize
     THEN [q |-> q, threw |-> FALSE, undefined |-> TRUE]
     ELSE IF checkIdOverflow(grown)
     THEN [q |-> grown, threw |-> TRUE, undefined |-> FALSE]
     ELSE LET i == grown.mSize
              made == createNode(grown, i, item, score, grown.mNextId)
              counted == [made EXCEPT !.mNextId = Wrap(@ + 1),
                                      !.mSize = Wrap(@ + 1)]
          IN [q |-> swim(counted, i), threw |-> FALSE, undefined |-> FALSE]

\* resize as it would be if it took over the new capacity before it
\* allocated the arrays of that capacity
resizeFails_capacityFirst(q, newCapacity, failAt) ==
  [q EXCEPT !.mCapacity = newCapacity]

\* resize(newCapacity) when the failAt-th of its three allocate() calls
\* throws bad_alloc: the three calls are its first statements, no member
\* has been written and no node copied or destroyed when the call is left
resizeFails(q, newCapacity, failAt) ==
  q

\* insert(item, score) on a full queue whose resize() runs out of memory:
\* bad_alloc leaves insert before checkIdOverflow() and createNode()
insertFails(q, item, score, failAt) ==
  [q |-> resizeFails(q, Wrap(q.mCapacity + q.mStepSize), failAt),
   threw |-> TRUE, undefined |-> FALSE]

\* pop as it would be if an empty queue were reported as an error
pop_throwsOnEmpty(q) ==
  IF ~empty(q)
  THEN LET swapped == swapNodes(q, 0, q.mSize - 1)
           destroyed == destroyNode(swapped, q.mSize - 1)
           shrunk == [destroyed EXCEPT !.mSize = @ - 1]
       IN [q |-> sink(checkCapacity(shrunk), 0), threw |-> FALSE]
  ELSE [q |-> q, threw |-> TRUE]

pop(q) ==
  IF ~empty(q)
  THEN LET swapped == swapNodes(q, 0, q.mSize - 1)
           destroyed == destroyNode(swapped, q.mSize - 1)
           shrunk == [destroyed EXCEPT !.mSize = @ - 1]
       IN [q |-> sink(checkCapacity(shrunk), 0), threw |-> FALSE]
  ELSE [q |-> q, threw |-> FALSE]

\* clear as it would be if it kept arrays that have the initial capacity
clear_keepsArrays(q) ==
  LET destroyed == destroyAllNodes(q)
      emptied == [destroyed EXCEPT !.mSize = 0]
  IN [q |-> IF q.mCapacity = q.mInitialCapacity THEN emptied
            ELSE resize(emptied, q.mInitialCapacity),
      threw |-> FALSE]

\* clear as it would be if it restarted the insertion ids at 0
clear_resetsNextId(q) ==
  LET destroyed == destroyAllNodes(q)
      emptied == [destroyed EXCEPT !.mSize = 0, !.mNextId = 0]
  IN [q |-> resize(emptied, q.mInitialCapacity), threw |-> FALSE]

clear(q) ==
  LET destroyed == destroyAllNodes(q)
      emptied == [destroyed EXCEPT !.mSize = 0]
  IN [q |-> resize(emptied, q.mInitialCapacity), threw |-> FALSE]

\* swap(first, second): the members it exchanges, and those it leaves where
\* they are (mIds, mNextId, mNumResizes)
swap(first, second) ==
  [first |-> [first EXCEPT !.mSize = second.mSize,
                           !.mStepSize = second.mStepSize,
                           !.mStepSize2x = second.mStepSize2x,
                           !.mInitialCapacity = second.mInitialCapacity,
                           !.mItems = second.mItems,
                           !.mPriorities = second.mPriorities,
                           !.mCapacity = second.mCapacity],
   second |-> [second EXCEPT !.mSize = first.mSize,
                             !.mStepSize = first.mStepSize,
                             !.mStepSize2x = first.mStepSize2x,
                             !.mInitialCapacity = first.mInitialCapacity,
                             !.mItems = first.mItems,
                             !.mPriorities = first.mPriorities,
                             !.mCapacity = first.mCapacity]]

\* the parameter check as it would be if it also refused the step that
\* takes the first resize exactly to MAX_ID
ctorThrows_offByOne(initialCapacity, stepSize) ==
  stepSize = 0 \/ stepSize >= MAX_ID - initialCapacity

\* the constructor's parameter check
ctorThrows(initialCapacity, stepSize) ==
  stepSize = 0 \/ stepSize > MAX_ID - initialCapacity

----------------------------------------------------------------------------
(* The state machine.                                                      *)

Install(q) ==
  /\ mItems' = q.mItems
  /\ mPriorities' = q.mPriorities
  /\ mIds' = q.mIds
  /\ mInitialCapacity' = q.mInitialCapacity
  /\ mStepSize' = q.mStepSize
  /\ mStepSize2x' = q.mStepSize2x
  /\ mCapacity' = q.mCapacity
  /\ mSize' = q.mSize
  /\ mNextId' = q.mNextId
  /\ mNumResizes' = q.mNumResizes

\* the node stored at index i, as (priority, id)
Rank(q, i) == <<q.mPriorities[i], q.mIds[i]>>

\* the members after PriorityQueue(initialCapacity, stepSize) has returned;
\* mNextId has no initialiser in the constructor: its value is indeterminate
Constructed(initialCapacity, stepSize) ==
  /\ mInitialCapacity = initialCapacity
  /\ mStepSize = stepSize
  /\ mStepSize2x = Wrap(2 * stepSize)
  /\ mCapacity = initialCapacity
  /\ mItems = allocateItems(initialCapacity)
  /\ mPriorities = allocatePriorities(initialCapacity)
  /\ mIds = allocateIds(initialCapacity)
  /\ mSize = 0
  /\ mNumResizes = 0
  /\ mNextId \in Indeterminate

\* the queue a second object of the program holds; NoQueue where the
\* program has one queue only
NoQueue ==
  [mItems |-> allocateItems(0), mPriorities |-> allocatePriorities(0),
   mIds |-> allocateIds(0), mInitialCapacity |-> 0, mStepSize |-> 0,
   mStepSize2x |-> 0, mCapacity |-> 0, mSize |-> 0, mNextId |-> 0,
   mNumResizes |-> 0]

Alone == other = NoQueue

\* no call has been made on the queue yet
NoCallYet ==
  /\ lastOp = "new"
  /\ lastArg = NoArg
  /\ threw = FALSE
  /\ prevSize = 0
  /\ prevCapacity = mCapacity
  /\ nInserts = 0
  /\ nPops = 0
  /\ counting = TRUE
  /\ phase = "fill"
  /\ lastOut = NoNode
  /\ runResizes = 0
  /\ undefined = FALSE
  /\ allocFails = 0

Init ==
  /\ \E initialCapacity \in InitialCapacities, stepSize \in StepSizes :
       /\ ~ctorThrows(initialCapacity, stepSize)
       /\ Constructed(initialCapacity, stepSize)
  /\ NoCallYet
  /\ Alone

\* the resizes of the current run of alternating insertions and removals,
\* op being the call now made and changed whether it added or removed a node
RunResizes(op, changed, resized) ==
  LET n == IF resized THEN 1 ELSE 0
  IN IF ~changed THEN 0
     ELSE IF lastOp \in {"insert", "pop"} /\ lastOp # op /\ mSize # prevSize
     THEN runResizes + n
     ELSE n

\* insert(item, score) with (item, score) drawn from the set ins
InsertOf(ins) ==
  /\ ~undefined
  /\ \E in \in ins :
       LET r == insert(This, in[1], in[2])
       IN /\ Install(r.q)
          /\ threw' = r.threw
          /\ undefined' = r.undefined
          /\ lastArg' = in
          /\ phase' = IF ~r.threw /\ (mSize = 0 \/ phase = "fill")
                      THEN "fill" ELSE "off"
          /\ runResizes' = RunResizes("insert", r.q.mSize # mSize,
                                      r.q.mCapacity # mCapacity)
  /\ lastOp' = "insert"
  /\ prevSize' = mSize
  /\ prevCapacity' = mCapacity
  /\ lastOut' = NoNode
  /\ nInserts' = nInserts + 1
  /\ allocFails' = 0
  /\ UNCHANGED <<nPops, counting, other>>

Insert ==
  /\ nInserts < MaxCalls
  /\ InsertOf(Inputs)

Pop ==
  /\ ~undefined
  /\ LET r == pop(This)
     IN /\ Install(r.q)
        /\ threw' = r.threw
        /\ runResizes' = RunResizes("pop", r.q.mSize # mSize,
                                    r.q.mCapacity # mCapacity)
  /\ lastOp' = "pop"
  /\ lastArg' = NoArg
  /\ prevSize' = mSize
  /\ prevCapacity' = mCapacity
  /\ phase' = IF mSize = 0 THEN phase
              ELSE IF phase \in {"fill", "drain"} THEN "drain" ELSE "off"
  /\ lastOut' = IF mSize = 0 THEN lastOut
                ELSE IF phase' = "drain" THEN Rank(This, 0) ELSE NoNode
  /\ nPops' = IF counting /\ mSize > 0 THEN nPops + 1 ELSE nPops
  /\ UNCHANGED <<nInserts, counting, undefined, allocFails, other>>

Clear ==
  /\ ~undefined
  /\ mNumResizes < MaxResizes
  /\ LET r == clear(This)
     IN /\ Install(r.q)
        /\ threw' = r.threw
  /\ lastOp' = "clear"
  /\ lastArg' = NoArg
  /\ prevSize' = mSize
  /\ prevCapacity' = mCapacity
  /\ phase' = "off"
  /\ lastOut' = NoNode
  /\ counting' = FALSE
  /\ nPops' = 0
  /\ runResizes' = 0
  /\ UNCHANGED <<nInserts, undefined, allocFails, other>>

Next == Insert \/ Pop \/ Clear

Spec == Init /\ [][Next]_vars

----------------------------------------------------------------------------
(* Construction as a call: PriorityQueue(initialCapacity, stepSize) with    *)
(* any two values of size_t.                                                *)

CtorArgs == (0..MAX_ID) \X (0..MAX_ID)

\* there is no queue yet: the members stand for no object
InitCtor ==
  /\ mInitialCapacity = 0
  /\ mStepSize = 0
  /\ mStepSize2x = 0
  /\ mCapacity = 0
  /\ mItems = allocateItems(0)
  /\ mPriorities = allocatePriorities(0)
  /\ mIds = allocateIds(0)
  /\ mSize = 0
  /\ mNumResizes = 0
  /\ mNextId = 0
  /\ Alone
  /\ lastOp = "none"
  /\ lastArg = NoArg
  /\ threw = FALSE
  /\ prevSize = 0
  /\ prevCapacity = 0
  /\ nInserts = 0
  /\ nPops = 0
  /\ counting = TRUE
  /\ phase = "fill"
  /\ lastOut = NoNode
  /\ runResizes = 0
  /\ undefined = FALSE
  /\ allocFails = 0

\* the constructor call: out_of_range is thrown before allocateArrays() and
\* no object comes into being, or the members are set up
Construct ==
  /\ lastOp = "none"
  /\ \E args \in CtorArgs :
       /\ lastArg' = args
       /\ IF ctorThrows(args[1], args[2])
          THEN /\ threw' = TRUE
               /\ UNCHANGED members
          ELSE /\ threw' = FALSE
               /\ mInitialCapacity' = args[1]
               /\ mStepSize' = args[2]
               /\ mStepSize2x' = Wrap(2 * args[2])
               /\ mCapacity' = args[1]
               /\ mItems' = allocateItems(args[1])
               /\ mPriorities' = allocatePriorities(args[1])
               /\ mIds' = allocateIds(args[1])
               /\ mSize' = 0
               /\ mNumResizes' = 0
               /\ mNextId' \in Indeterminate
  /\ lastOp' = "new"
  /\ prevCapacity' = mCapacity'
  /\ UNCHANGED <<prevSize, nInserts, nPops, counting, phase, lastOut,
                 runResizes, undefined, allocFails, other>>

NextCtor == Construct

SpecCtor == InitCtor /\ [][NextCtor]_vars

----------------------------------------------------------------------------
(* The operations together with the accessor top().                         *)

\* what a caller may find in slot 0 of an empty queue: storage in which no
\* item is constructed, or the remains of a destroyed one
StrayItems == Items \cup {NoItem}

\* top() as it would be if an empty queue were reported as an error
Top_throwsOnEmpty ==
  /\ ~undefined
  /\ lastArg' = IF mSize > 0 THEN <<top(This), -1>> ELSE NoArg
  /\ threw' = (mSize = 0)
  /\ lastOp' = "top"
  /\ prevSize' = mSize
  /\ prevCapacity' = mCapacity
  /\ UNCHANGED <<members, nInserts, nPops, counting, phase, lastOut,
                 runResizes, undefined, allocFails, other>>

\* top(): no check of mSize, no write; the item returned is kept in lastArg
Top ==
  /\ ~undefined
  /\ \E item \in (IF mSize > 0 THEN {top(This)} ELSE StrayItems) :
       lastArg' = <<item, -1>>
  /\ threw' = FALSE
  /\ lastOp' = "top"
  /\ prevSize' = mSize
  /\ prevCapacity' = mCapacity
  /\ UNCHANGED <<members, nInserts, nPops, counting, phase, lastOut,
                 runResizes, undefined, allocFails, other>>

InsertEither ==
  /\ nInserts < MaxCalls
  /\ InsertOf(TwoInputs)

NextTop == InsertEither \/ Pop \/ Clear \/ Top

SpecTop == Init /\ [][NextTop]_vars

----------------------------------------------------------------------------
(* The operations together with every accessor.  The value an accessor     *)
(* returns is kept in lastArg, a number in its second place.                *)

\* empty() as it would be if it emptied the queue, as clear() does
Empty_clears ==
  /\ ~undefined
  /\ mNumResizes < MaxResizes
  /\ Install(clear(This).q)
  /\ lastArg' = <<NoItem, IF empty(This) THEN 1 ELSE 0>>
  /\ threw' = FALSE
  /\ lastOp' = "empty"
  /\ prevSize' = mSize
  /\ prevCapacity' = mCapacity
  /\ UNCHANGED <<nInserts, nPops, counting, phase, lastOut,
                 runResizes, undefined, allocFails, other>>

Empty ==
  /\ ~undefined
  /\ lastArg' = <<NoItem, IF empty(This) THEN 1 ELSE 0>>
  /\ threw' = FALSE
  /\ lastOp' = "empty"
  /\ prevSize' = mSize
  /\ prevCapacity' = mCapacity
  /\ UNCHANGED <<members, nInserts, nPops, counting, phase, lastOut,
                 runResizes, undefined, allocFails, other>>

GetSize ==
  /\ ~undefined
  /\ lastArg' = <<NoItem, getSize(This)>>
  /\ threw' = FALSE
  /\ lastOp' = "getSize"
  /\ prevSize' = mSize
  /\ prevCapacity' = mCapacity
  /\ UNCHANGED <<members, nInserts, nPops, counting, phase, lastOut,
                 runResizes, undefined, allocFails, other>>

GetCapacity ==
  /\ ~undefined
  /\ lastArg' = <<NoItem, getCapacity(This)>>
  /\ threw' = FALSE
  /\ lastOp' = "getCapacity"
  /\ prevSize' = mSize
  /\ prevCapacity' = mCapacity
  /\ UNCHANGED <<members, nInserts, nPops, counting, phase, lastOut,
                 runResizes, undefined, allocFails, other>>

GetNumResizes ==
  /\ ~undefined
  /\ lastArg' = <<NoItem, getNumResizes(This)>>
  /\ threw' = FALSE
  /\ lastOp' = "getNumResizes"
  /\ prevSize' = mSize
  /\ prevCapacity' = mCapacity
  /\ UNCHANGED <<members, nInserts, nPops, counting, phase, lastOut,
                 runResizes, undefined, allocFails, other>>

InsertOne ==
  /\ nInserts < MaxCalls
  /\ InsertOf(SameInput)

NextAccessors ==
  \/ InsertOne \/ Pop \/ Clear
  \/ Top \/ Empty \/ GetSize \/ GetCapacity \/ GetNumResizes

SpecAccessors == Init /\ [][NextAccessors]_vars

----------------------------------------------------------------------------
(* The operations when memory can run out while insert grows the arrays.    *)

\* the allocate() calls of resize(): items, priorities, ids
Allocations == 1..3

InsertFails ==
  /\ ~undefined
  /\ nInserts < MaxCalls
  /\ mSize = mCapacity
  /\ \E in \in TwoInputs, failAt \in Allocations :
       LET r == insertFails(This, in[1], in[2], failAt)
       IN /\ Install(r.q)
          /\ threw' = r.threw
          /\ undefined' = r.undefined
          /\ lastArg' = in
          /\ allocFails' = failAt
          /\ runResizes' = RunResizes("insert", r.q.mSize # mSize,
                                      r.q.mCapacity # mCapacity)
  /\ phase' = "off"
  /\ lastOp' = "insert"
  /\ prevSize' = mSize
  /\ prevCapacity' = mCapacity
  /\ lastOut' = NoNode
  /\ nInserts' = nInserts + 1
  /\ UNCHANGED <<nPops, counting, other>>

NextAlloc == InsertEither \/ InsertFails \/ Pop \/ Clear

SpecAlloc == Init /\ [][NextAlloc]_vars

----------------------------------------------------------------------------
(* Two queues and swap(first, second).  The calls are made on the first;    *)
(* the second has been constructed and filled before.                       *)

\* the queue PriorityQueue(initialCapacity, stepSize) yields when its
\* mNextId happens to start at nextId
Fresh(initialCapacity, stepSize, nextId) ==
  [mItems |-> allocateItems(initialCapacity),
   mPriorities |-> allocatePriorities(initialCapacity),
   mIds |-> allocateIds(initialCapacity),
   mInitialCapacity |-> initialCapacity, mStepSize |-> stepSize,
   mStepSize2x |-> Wrap(2 * stepSize), mCapacity |-> initialCapacity,
   mSize |-> 0, mNextId |-> nextId, mNumResizes |-> 0]

\* q after n more calls insert("b", 1)
RECURSIVE Filled(_, _)
Filled(q, n) == IF n = 0 THEN q ELSE Filled(insert(q, "b", 1).q, n - 1)

MaxFilled == 2

SecondQueues ==
  {Filled(Fresh(initialCapacity, 1, nextId), n) :
     initialCapacity \in InitialCapacities, nextId \in {0, 1},
     n \in 0..MaxFilled}

InitSwap ==
  /\ \E initialCapacity \in InitialCapacities, stepSize \in StepSizes :
       /\ ~ctorThrows(initialCapacity, stepSize)
       /\ Constructed(initialCapacity, stepSize)
  /\ NoCallYet
  /\ other \in SecondQueues

\* the ids arrays stay with their queues: unless both queues have the same
\* capacity and the same size, one of them now has live indices whose id was
\* never written, or an ids array that is not mCapacity slots long, and the
\* next call on it or its destructor reads such an id or releases the array
\* with the wrong length
SameShape(first, second) ==
  first.mCapacity = second.mCapacity /\ first.mSize = second.mSize

Swap ==
  /\ ~undefined
  /\ LET r == swap(This, other)
     IN /\ Install(r.first)
        /\ other' = r.second
  /\ undefined' = ~SameShape(This, other)
  /\ lastOp' = "swap"
  /\ lastArg' = NoArg
  /\ threw' = FALSE
  /\ prevSize' = mSize
  /\ prevCapacity' = mCapacity
  /\ phase' = "off"
  /\ lastOut' = NoNode
  /\ counting' = FALSE
  /\ runResizes' = 0
  /\ UNCHANGED <<nInserts, nPops, allocFails>>

NextSwap == InsertOne \/ Pop \/ Swap

SpecSwap == InitSwap /\ [][NextSwap]_vars

----------------------------------------------------------------------------
(* Inserting and popping only, on a queue whose mNextId happens to start    *)
(* at 0: the states in which swim and sink are looked at step by step.      *)

InitZero == Init /\ mNextId = 0

NextHeap == Insert \/ Pop

SpecHeap == InitZero /\ [][NextHeap]_vars

----------------------------------------------------------------------------
(* Filling a queue as far as the ids reach: one (item, score) pair, as      *)
(* many insert calls as size_t has values.                                  *)

InsertSame ==
  /\ nInserts <= MAX_ID
  /\ InsertOf(SameInput)

NextExhaust == InsertSame \/ Pop

SpecExhaust == Init /\ [][NextExhaust]_vars

----------------------------------------------------------------------------
(* The hysteresis scenario: one queue, filled by a fixed number of inserts  *)
(* and then popped down.                                                    *)

Scenario ==
  [initialCapacity |-> 10, stepSize |-> 5, inserts |-> 11, downTo |-> 2]

InitScenario ==
  /\ ~ctorThrows(Scenario.initialCapacity, Scenario.stepSize)
  /\ Constructed(Scenario.initialCapacity, Scenario.stepSize)
  /\ NoCallYet
  /\ Alone

Fill ==
  /\ phase = "fill"
  /\ nInserts < Scenario.inserts
  /\ InsertOf(TwoInputs)

Drain ==
  /\ phase \in {"fill", "drain"}
  /\ nInserts = Scenario.inserts
  /\ mSize > Scenario.downTo
  /\ Pop

NextScenario == Fill \/ Drain

SpecScenario == InitScenario /\ [][NextScenario]_vars

----------------------------------------------------------------------------
(* The two-array revision, include/PriorityQueue.h: items and priorities    *)
(* only, no insertion ids and no parameter check.  Its members are held in  *)
(* the same variables; mIds stays empty and mNextId unused.  Its methods    *)
(* carry the names of the source with a 2 appended; parentIdxOf, leftIdxOf  *)
(* and rightIdxOf are the same in both revisions.                           *)

swapNodes2(q, a, b) ==
  [q EXCEPT !.mItems = [@ EXCEPT ![a] = q.mItems[b], ![b] = q.mItems[a]],
            !.mPriorities = [@ EXCEPT ![a] = q.mPriorities[b],
                                      ![b] = q.mPriorities[a]]]

destroyNode2(q, i) ==
  [q EXCEPT !.mItems[i] = NoItem, !.mPriorities[i] = NoPriority]

\* what the slots below mSize of a newly allocated int array may read as
Stale(q) == [0..(q.mSize - 1) -> Priorities]

\* resize(newCapacity): the items go to the new array; each priority is
\* constructed from itself in the old array (mPriorities+i, not
\* newPriorities+i) and destroyed there, so that no slot of the new
\* priorities array is ever written: what it reads as below mSize is stale
resize2(q, newCapacity, stale) ==
  [q EXCEPT
     !.mItems = [i \in 0..(newCapacity - 1) |->
                   IF i < q.mSize THEN q.mItems[i] ELSE NoItem],
     !.mPriorities = [i \in 0..(newCapacity - 1) |->
                        IF i < q.mSize THEN stale[i] ELSE NoPriority],
     !.mCapacity = newCapacity,
     !.mNumResizes = @ + 1]

checkCapacity2(q, stale) ==
  IF q.mCapacity >= q.mStepSize2x /\ q.mSize < Wrap(q.mCapacity - q.mStepSize2x)
  THEN LET newCapacity == Wrap(q.mCapacity - q.mStepSize)
       IN IF newCapacity >= q.mInitialCapacity
          THEN resize2(q, newCapacity, stale)
          ELSE q
  ELSE q

RECURSIVE sink2(_, _)
sink2(q, i) ==
  LET leftIdx == leftIdxOf(q, i)
      rightIdx == rightIdxOf(q, i)
      dest == IF q.mPriorities[rightIdx] > q.mPriorities[leftIdx]
              THEN rightIdx
              ELSE IF q.mPriorities[leftIdx] > q.mPriorities[rightIdx]
              THEN leftIdx
              ELSE i
  IN IF dest = i THEN q ELSE sink2(swapNodes2(q, dest, i), dest)

RECURSIVE swim2(_, _)
swim2(q, i) ==
  LET parentIdx == parentIdxOf(i)
  IN IF parentIdx # i /\ q.mPriorities[parentIdx] < q.mPriorities[i]
     THEN swim2(swapNodes2(q, parentIdx, i), parentIdx)
     ELSE q

insert2(q, item, score, stale) ==
  LET grown == IF q.mSize = q.mCapacity
               THEN resize2(q, Wrap(q.mCapacity + q.mStepSize), stale)
               ELSE q
      i == grown.mSize
      made == [grown EXCEPT !.mItems[i] = item, !.mPriorities[i] = score,
                            !.mSize = Wrap(@ + 1)]
  IN swim2(made, i)

pop2(q, stale) ==
  IF ~empty(q)
  THEN LET swapped == swapNodes2(q, 0, q.mSize - 1)
           destroyed == destroyNode2(swapped, q.mSize - 1)
           shrunk == [destroyed EXCEPT !.mSize = @ - 1]
       IN sink2(checkCapacity2(shrunk, stale), 0)
  ELSE q

\* the members after PriorityQueue(initialCapacity, stepSize) of the
\* two-array revision
InitTwoArray ==
  /\ \E initialCapacity \in InitialCapacities, stepSize \in StepSizes :
       /\ mInitialCapacity = initialCapacity
       /\ mStepSize = stepSize
       /\ mStepSize2x = Wrap(2 * stepSize)
       /\ mCapacity = initialCapacity
       /\ mItems = allocateItems(initialCapacity)
       /\ mPriorities = allocatePriorities(initialCapacity)
       /\ mSize = 0
       /\ mNumResizes = 0
  /\ mIds = allocateIds(0)
  /\ mNextId = 0
  /\ NoCallYet
  /\ Alone

Insert2 ==
  /\ ~undefined
  /\ nInserts < MaxCalls
  /\ \E in \in TwoInputs, stale \in Stale(This) :
       /\ Install(insert2(This, in[1], in[2], stale))
       /\ lastArg' = in
  /\ lastOp' = "insert"
  /\ threw' = FALSE
  /\ prevSize' = mSize
  /\ prevCapacity' = mCapacity
  /\ phase' = "off"
  /\ lastOut' = NoNode
  /\ runResizes' = 0
  /\ nInserts' = nInserts + 1
  /\ allocFails' = 0
  /\ UNCHANGED <<nPops, counting, undefined, other>>

\* pop(): stale is drawn for the mSize - 1 nodes that are left
Pop2 ==
  /\ ~undefined
  /\ \E stale \in [0..(mSize - 2) -> Priorities] :
       Install(pop2(This, stale))
  /\ lastOp' = "pop"
  /\ lastArg' = NoArg
  /\ threw' = FALSE
  /\ prevSize' = mSize
  /\ prevCapacity' = mCapacity
  /\ phase' = "off"
  /\ lastOut' = IF mSize = 0 THEN NoNode ELSE <<mPriorities[0], -1>>
  /\ runResizes' = 0
  /\ UNCHANGED <<nInserts, nPops, counting, undefined, allocFails, other>>

NextTwoArray == Insert2 \/ Pop2

SpecTwoArray == InitTwoArray /\ [][NextTwoArray]_vars

----------------------------------------------------------------------------
(* Vocabulary of the properties.                                           *)

Live == 0..(mSize - 1)

\* effective priority of nodes given as (priority, id): a is ahead of b
Outranks(a, b) == a[1] > b[1] \/ (a[1] = b[1] /\ a[2] < b[2])

\* the live nodes as (item, priority, id), and how often each occurs
NodeOf(q, i) == <<q.mItems[i], q.mPriorities[i], q.mIds[i]>>
Node(i) == NodeOf(This, i)
Triples == Items \X Priorities \X (0..MAX_ID)
CountOf(q, t) == Cardinality({i \in 0..(q.mSize - 1) : NodeOf(q, i) = t})
NodesOf(q) == {NodeOf(q, i) : i \in 0..(q.mSize - 1)}

\* the index of the live node that outranks every other live node
BestIdx ==
  CHOOSE i \in Live : \A j \in Live \ {i} : Outranks(Rank(This, i), Rank(This, j))

----------------------------------------------------------------------------
(* C1: whenever the queue is not empty, top() returns the item of the live *)
(* node of greatest effective priority (highest priority, and among those  *)
(* the smallest insertion id).                                             *)
C1_TopIsMaximum ==
  mSize > 0 => top(This) = mItems[BestIdx]

(* C2: n inserts into an empty queue followed by pops only: the node that  *)
(* top() shows before each pop is outranked by the node popped just before *)
(* it (descending priority, ascending insertion id among equals).          *)
C2_DrainDescending ==
  (phase = "drain" /\ mSize > 0) => Outranks(lastOut, Rank(This, 0))

(* C3: heap order: no live node at an index i > 0 outranks the node at its *)
(* parent index (i-1)/2.                                                   *)
C3_HeapOrder ==
  \A i \in Live \ {0} :
    ~Outranks(Rank(This, i), Rank(This, (i - 1) \div 2))

(* C4: FIFO among equal priorities: when a pop removes a node, no node    *)
(* that was live with it has the same priority and a smaller insertion id  *)
(* (the earlier-inserted of two equal-priority nodes is removed first).    *)
C4_FifoAmongTies ==
  [][lastOp' = "pop" =>
       \A i \in Live :
         CountOf(This', Node(i)) = 0 =>
           \A j \in Live :
             ~(mPriorities[j] = mPriorities[i] /\ mIds[j] < mIds[i])]_vars

(* C5: conservation of nodes: a completed insert adds exactly the triple   *)
(* (item, score, nextId), an insert that throws adds nothing, a pop on a   *)
(* non-empty queue removes exactly the triple that was at index 0, a pop   *)
(* on an empty queue removes nothing; no other triple is altered,          *)
(* duplicated or lost by swim, sink or a resize.  The live triples are     *)
(* pairwise distinct (as many triples as live slots), so that the set of   *)
(* triples together with the size is the multiset.                         *)
C5_Conservation ==
  [][/\ Cardinality(NodesOf(This)) = mSize
     /\ Cardinality(NodesOf(This')) = mSize'
     /\ NodesOf(This') \subseteq Triples
     /\ (lastOp' = "insert" /\ ~threw') =>
          /\ mSize' = mSize + 1
          /\ NodesOf(This') =
               NodesOf(This) \cup {<<lastArg'[1], lastArg'[2], mNextId>>}
     /\ (lastOp' = "insert" /\ threw') => NodesOf(This') = NodesOf(This)
     /\ (lastOp' = "pop" /\ mSize > 0) =>
          /\ mSize' = mSize - 1
          /\ NodesOf(This') = NodesOf(This) \ {Node(0)}
     /\ (lastOp' = "pop" /\ mSize = 0) => NodesOf(This') = NodesOf(This)]_vars

\* a pop has removed a node, moved nodes in sink and shrunk the arrays
C5_Witness ==
  lastOp = "pop" /\ mSize >= 3 /\ mCapacity < prevCapacity

(* C6: with only insert and pop called since construction, size() is the   *)
(* number of insert calls minus the number of pops made on a non-empty     *)
(* queue, and empty() holds exactly when size() is 0.                      *)
C6_SizeIsInsertsMinusPops ==
  /\ counting => getSize(This) = nInserts - nPops
  /\ empty(This) <=> (getSize(This) = 0)

(* C7: capacity >= size and capacity >= initialCapacity in every state.    *)
C7_CapacityBounds ==
  /\ getCapacity(This) >= getSize(This)
  /\ getCapacity(This) >= mInitialCapacity

\* a pop left the queue under the shrink threshold, and only the floor at
\* mInitialCapacity kept checkCapacity from shrinking the arrays
C7_Witness ==
  /\ lastOp = "pop"
  /\ mCapacity >= mStepSize2x
  /\ mSize < mCapacity - mStepSize2x
  /\ mCapacity - mStepSize < mInitialCapacity

(* C8: pop() on an empty queue raises no error and leaves size, capacity,  *)
(* numResizes, nextId and the three arrays as they were.                   *)
C8_PopOnEmptyIsNoOp ==
  [][(lastOp' = "pop" /\ mSize = 0) => (~threw' /\ UNCHANGED members)]_vars

\* pop() was called on an empty queue whose arrays had been resized before
C8_Witness ==
  lastOp = "pop" /\ prevSize = 0 /\ mNumResizes > 0

(* C9: insert changes capacity exactly when size = capacity at the call;   *)
(* then capacity grows by stepSize and numResizes by 1; otherwise both     *)
(* stay as they were.                                                      *)
C9_GrowPolicy ==
  [][lastOp' = "insert" =>
       IF mSize = mCapacity
       THEN /\ mCapacity' = mCapacity + mStepSize
            /\ mNumResizes' = mNumResizes + 1
       ELSE /\ mCapacity' = mCapacity
            /\ mNumResizes' = mNumResizes]_vars

\* an insert into a full queue has grown the arrays a second time
C9_Witness ==
  /\ lastOp = "insert"
  /\ mCapacity = prevCapacity + mStepSize
  /\ mCapacity = mInitialCapacity + 2 * mStepSize

C11_NoResizeOscillation ==
  [][/\ (lastOp = "insert" /\ mCapacity > prevCapacity /\ lastOp' = "pop")
          => ~(mCapacity' < mCapacity)
     /\ (lastOp = "pop" /\ mCapacity < prevCapacity /\ lastOp' = "insert")
          => ~(mCapacity' > mCapacity)
     /\ runResizes' <= 1]_vars

\* a pop removed a node right after an insert had grown the full arrays, in
\* a run of alternating insertions and removals at least three calls long
C11_Witness ==
  /\ lastOp = "pop"
  /\ prevSize = mSize + 1
  /\ mCapacity = prevCapacity
  /\ mSize + mStepSize = mCapacity
  /\ runResizes = 1
  /\ nInserts >= 2

(* C12: the hysteresis scenario: a queue built with initialCapacity 10 and  *)
(* stepSize 5 has numResizes 1 and capacity 15 once 11 items are inserted;  *)
(* while it is popped down to size 2 every pop leaves the capacity as it    *)
(* was or lowers it by exactly 5, the capacity is still 15 at size 9 and at *)
(* size 8, and it is never below 10.                                        *)
C12_HysteresisScenario ==
  [][/\ (phase' = "fill" /\ mSize' = 11) =>
          (getNumResizes(This') = 1 /\ getCapacity(This') = 15)
     /\ lastOp' = "pop" =>
          /\ mCapacity' = mCapacity \/ mCapacity' = mCapacity - 5
          /\ mSize' \in {9, 8} => getCapacity(This') = 15
     /\ getCapacity(This') >= 10]_vars

\* the 11 items were inserted and popped down to size 2, with one shrink
C12_Witness ==
  /\ phase = "drain"
  /\ nInserts = 11
  /\ mSize = 2
  /\ mCapacity = 10
  /\ mNumResizes = 2

(* C13: clear() leaves size 0 and capacity initialCapacity and does not     *)
(* touch nextId; the item inserted right after a clear is the only live     *)
(* node and carries the id that nextId held at the clear.                   *)
C13_ClearKeepsNextId ==
  [][/\ lastOp' = "clear" =>
          /\ getSize(This') = 0
          /\ getCapacity(This') = mInitialCapacity
          /\ mNextId' = mNextId
     /\ (lastOp = "clear" /\ lastOp' = "insert" /\ ~threw') =>
          /\ NodesOf(This') = {<<lastArg'[1], lastArg'[2], mNextId>>}
          /\ mNextId' = mNextId + 1]_vars

\* clear() was called on a queue that held nodes in grown arrays and had
\* handed out ids, and a further insert will not overflow the ids
C13_Witness ==
  /\ lastOp = "clear"
  /\ prevSize >= 2
  /\ prevCapacity > mCapacity
  /\ mNextId >= 2
  /\ mNextId < MAX_ID

\* the queue that pop() hands to checkCapacity(): the root exchanged with
\* the last node, that node destroyed, mSize counted down
Removed(q) ==
  [destroyNode(swapNodes(q, 0, q.mSize - 1), q.mSize - 1)
     EXCEPT !.mSize = @ - 1]

\* r is q with its arrays reallocated: the same size and the same node at
\* every live index, as many slots as the new capacity, numResizes counted
\* up, every other member as in q
ResizedOnly(q, r) ==
  /\ r.mSize = q.mSize
  /\ \A i \in 0..(q.mSize - 1) : NodeOf(r, i) = NodeOf(q, i)
  /\ DOMAIN r.mItems = 0..(r.mCapacity - 1)
  /\ DOMAIN r.mPriorities = 0..(r.mCapacity - 1)
  /\ DOMAIN r.mIds = 0..(r.mCapacity - 1)
  /\ r.mCapacity # q.mCapacity
  /\ r.mNumResizes = q.mNumResizes + 1
  /\ r.mNextId = q.mNextId
  /\ r.mInitialCapacity = q.mInitialCapacity
  /\ r.mStepSize = q.mStepSize
  /\ r.mStepSize2x = q.mStepSize2x

(* C14: a resize leaves size and the item, priority and insertion id at     *)
(* every index below size as they were, and changes only capacity and       *)
(* numResizes: for the grow that insert makes on a full queue (seen alone   *)
(* when the insert then throws) and for the shrink that pop makes after     *)
(* removing the root.                                                       *)
C14_ResizeKeepsNodes ==
  [][/\ (lastOp' = "insert" /\ mSize = mCapacity) =>
          /\ ResizedOnly(This, resize(This, mCapacity + mStepSize))
          /\ threw' => ResizedOnly(This, This')
     /\ (lastOp' = "pop" /\ mCapacity' # mCapacity) =>
          ResizedOnly(Removed(This), checkCapacity(Removed(This)))]_vars

\* a pop has shrunk arrays that still hold two or more nodes, in a queue
\* whose arrays had been grown before
C14_Witness ==
  /\ lastOp = "pop"
  /\ mCapacity < prevCapacity
  /\ mSize >= 2
  /\ mNumResizes >= 3

(* C15: in every state reached without undefined behaviour (the id counter *)
(* has not overflowed), the insertion ids of the live nodes are pairwise    *)
(* distinct and each is smaller than nextId.                                *)
C15_LiveIdsDistinct ==
  ~undefined =>
    \A i \in Live :
      /\ mIds[i] < mNextId
      /\ \A j \in Live \ {i} : mIds[j] # mIds[i]

\* three or more nodes are live after nodes were inserted and removed
C15_Witness ==
  /\ lastOp = "insert"
  /\ ~threw
  /\ mSize >= 3
  /\ counting
  /\ nPops >= 1

(* C16: the constructor call fails, with no container created, exactly      *)
(* when stepSize = 0 or stepSize > MAX_ID - initialCapacity; with every     *)
(* other pair it succeeds and yields a queue of that capacity and step.     *)
C16_CtorFailsExactlyWhen ==
  [][lastOp' = "new" =>
       LET initialCapacity == lastArg'[1]
           stepSize == lastArg'[2]
       IN /\ threw' <=> (stepSize = 0 \/ stepSize > MAX_ID - initialCapacity)
          /\ threw' => UNCHANGED members
          /\ ~threw' =>
               /\ mInitialCapacity' = initialCapacity
               /\ mStepSize' = stepSize
               /\ getCapacity(This') = initialCapacity
               /\ DOMAIN mItems' = 0..(initialCapacity - 1)
               /\ empty(This')]_vars

\* a constructor call was refused for a step that is not zero
C16_Witness ==
  lastOp = "new" /\ threw /\ lastArg[2] # 0

(* C17: right after a successful construction capacity = initialCapacity,  *)
(* size = 0, nextId = 0 and numResizes = 0, and the first item inserted     *)
(* gets insertion id 0.                                                     *)
C17_FreshQueue ==
  /\ (lastOp = "new" /\ ~threw) =>
       /\ getCapacity(This) = mInitialCapacity
       /\ getSize(This) = 0
       /\ mNextId = 0
       /\ getNumResizes(This) = 0
  /\ (lastOp = "insert" /\ nInserts = 1 /\ ~threw) => mIds[0] = 0

\* the index of the live node of q that has exactly k live nodes of
\* smaller id
OldestIdx(q, k) ==
  CHOOSE i \in 0..(q.mSize - 1) :
    Cardinality({j \in 0..(q.mSize - 1) : q.mIds[j] < q.mIds[i]}) = k

(* C18: an insert called with nextId = MAX_ID and size < MAX_ID succeeds:   *)
(* the ids of the nodes that were live become 0..size-1 in their old        *)
(* relative order, and the new item gets id size.                           *)
C18_OverflowRenumbers ==
  [][(lastOp' = "insert" /\ mNextId = MAX_ID /\ mSize < MAX_ID) =>
       /\ ~threw'
       /\ mSize' = mSize + 1
       /\ {mIds'[i] : i \in 0..mSize} = 0..mSize
       /\ \A k \in 0..(mSize - 1) :
            LET old == OldestIdx(This, k)
                new == OldestIdx(This', k)
            IN /\ mIds'[new] = k
               /\ mItems'[new] = mItems[old]
               /\ mPriorities'[new] = mPriorities[old]
       /\ NodeOf(This', OldestIdx(This', mSize)) =
            <<lastArg'[1], lastArg'[2], mSize>>]_vars

(* C19: id exhaustion is never silent: no insert makes nextId wrap to 0 or  *)
(* hands out an id that a live node already has, no insert has undefined    *)
(* behaviour, and an insert called at size = MAX_ID reports an error.       *)
C19_ExhaustionNeverSilent ==
  [][lastOp' = "insert" =>
       /\ ~undefined'
       /\ mNextId' >= mNextId
       /\ mSize = MAX_ID => threw'
       /\ \A i, j \in 0..(mSize' - 1) : i # j => mIds'[i] # mIds'[j]]_vars

(* C20, as claimed: top() on an empty queue reports an error instead of     *)
(* returning the contents of slot 0, and leaves the queue as it was.        *)
C20_TopOnEmptyReportsError ==
  [][(lastOp' = "top" /\ mSize = 0) => (threw' /\ UNCHANGED members)]_vars

(* C20, amended: top() on an empty queue reports no error; it returns what  *)
(* is in slot 0, which is no live item, and leaves the queue as it was.     *)
C20_TopOnEmptyUnchecked ==
  [][(lastOp' = "top" /\ mSize = 0) =>
       /\ ~threw'
       /\ lastArg'[1] \in StrayItems
       /\ UNCHANGED members]_vars

\* top() was called on a queue emptied by pops after its arrays had grown
C20_Witness ==
  lastOp = "top" /\ mSize = 0 /\ ~threw /\ mNumResizes > 0 /\ nPops > 0

(***************************************************************************)
(* C21  top(), empty(), getSize(), getCapacity() and getNumResizes() leave  *)
(* every member of the queue as it was: size, capacity, numResizes, nextId  *)
(* and the three arrays.                                                    *)
(***************************************************************************)
Accessors == {"top", "empty", "getSize", "getCapacity", "getNumResizes"}

C21_AccessorsChangeNothing ==
  [][lastOp' \in Accessors => UNCHANGED members]_vars

\* empty() has been called on a queue that holds two nodes and has resized
C21_Witness ==
  lastOp = "empty" /\ lastArg[2] = 0 /\ mSize >= 2 /\ mNumResizes > 0

(***************************************************************************)
(* C22  When one of the three allocations of a growing insert fails, the    *)
(* insert reports the failure and every member of the queue is as it was    *)
(* before the call: the arrays and their contents, size, capacity,          *)
(* numResizes and nextId.                                                   *)
(***************************************************************************)
C22_FailedGrowChangesNothing ==
  [][(lastOp' = "insert" /\ allocFails' # 0) =>
       (threw' /\ UNCHANGED members)]_vars

\* the third allocation failed in an insert on a full queue of three or
\* more nodes that had resized before
C22_Witness ==
  /\ lastOp = "insert"
  /\ allocFails = 3
  /\ threw
  /\ mSize = mCapacity
  /\ mSize >= 3
  /\ mNumResizes > 0

(***************************************************************************)
(* C23  Slot lifecycle.  Between calls the slots that hold a constructed    *)
(* node are exactly the indices below size, in three arrays of capacity     *)
(* slots each.  Within a call, the slot insert constructs holds no node     *)
(* and lies inside the arrays, the slot pop destroys holds one, and the     *)
(* arrays that resize() and the destructor release hold none once their     *)
(* nodes below size have been destroyed; after clear no slot holds a node.  *)
(***************************************************************************)
ConstructedSlots(q) == {i \in DOMAIN q.mItems : q.mItems[i] # NoItem}

Packed(q) ==
  /\ DOMAIN q.mItems = 0..(q.mCapacity - 1)
  /\ DOMAIN q.mPriorities = DOMAIN q.mItems
  /\ DOMAIN q.mIds = DOMAIN q.mItems
  /\ ConstructedSlots(q) = 0..(q.mSize - 1)
  /\ \A i \in DOMAIN q.mItems :
       i >= q.mSize => q.mPriorities[i] = NoPriority /\ q.mIds[i] = NoId

\* the arrays of q hold no node once destroyAllNodes() has run, as it does
\* in clear() and in the destructor before deallocateArrays()
ReleasedEmpty(q) == ConstructedSlots(destroyAllNodes(q)) = {}

C23_SlotLifecycle ==
  [][/\ Packed(This)
     /\ ~undefined' => Packed(This') /\ ReleasedEmpty(This')
     /\ (lastOp' = "insert" /\ ~threw' /\ ~undefined') =>
          LET grown == IF mSize = mCapacity
                       THEN resize(This, Wrap(mCapacity + mStepSize))
                       ELSE This
          IN /\ grown.mSize \in DOMAIN grown.mItems
             /\ grown.mSize \notin ConstructedSlots(grown)
     /\ (lastOp' = "pop" /\ mSize > 0) =>
          /\ (mSize - 1) \in ConstructedSlots(swapNodes(This, 0, mSize - 1))
          /\ Packed(Removed(This))
          /\ ReleasedEmpty(Removed(This))
     /\ lastOp' = "clear" => ConstructedSlots(This') = {}]_vars

\* a pop has shrunk the arrays of a queue that still holds two nodes, after
\* a clear() and an insert that grew them
C23_Witness ==
  /\ lastOp = "pop"
  /\ prevCapacity > mCapacity
  /\ mSize >= 2
  /\ mNumResizes >= 3
  /\ ~counting

(***************************************************************************)
(* C24  swap(first, second) exchanges the whole state of the two queues:    *)
(* after it each has every member the other had (size, capacity,            *)
(* initialCapacity, stepSize, items, priorities, insertion ids, nextId      *)
(* and numResizes), and a second swap gives both their own state back.      *)
(***************************************************************************)
C24_SwapExchangesAll ==
  [][lastOp' = "swap" =>
       /\ This' = other
       /\ other' = This
       /\ LET once == swap(This, other)
              twice == swap(once.first, once.second)
          IN twice.first = This /\ twice.second = other]_vars

(***************************************************************************)
(* C25  Sift-down step rule.  In every iteration of the sink(0) that a pop  *)
(* runs, the node at i is exchanged with a child exactly when some child    *)
(* strictly outranks the node at i itself, the child taken is then the one  *)
(* that no other child outranks, and otherwise the loop stops with the      *)
(* node in place.                                                           *)
(***************************************************************************)
ChildrenOf(q, i) == {leftIdxOf(q, i), rightIdxOf(q, i)} \ {i}

SinkStepRule(q, i) ==
  LET dest == destIdx(q, i)
  IN IF \E c \in ChildrenOf(q, i) : greaterPriority(q, c, i)
     THEN /\ dest \in ChildrenOf(q, i)
          /\ \A c \in ChildrenOf(q, i) : ~greaterPriority(q, c, dest)
     ELSE dest = i

RECURSIVE SinkRuleFrom(_, _)
SinkRuleFrom(q, i) ==
  /\ SinkStepRule(q, i)
  /\ destIdx(q, i) # i =>
       SinkRuleFrom(swapNodes(q, destIdx(q, i), i), destIdx(q, i))

C25_SinkComparesWithSelf ==
  [][(lastOp' = "pop" /\ mSize > 0) =>
       SinkRuleFrom(checkCapacity(Removed(This)), 0)]_vars

(***************************************************************************)
(* C26  insert preserves heap order: when the live nodes are in heap order  *)
(* (no node outranks its parent) and their ids are pairwise distinct and    *)
(* below nextId, they are in heap order again after insert(item, score),    *)
(* whatever the score.                                                      *)
(***************************************************************************)
HeapOrdered(q) ==
  \A i \in 1..(q.mSize - 1) :
     ~Outranks(Rank(q, i), Rank(q, parentIdxOf(i)))

DistinctBelowNext(q) ==
  /\ \A i, j \in 0..(q.mSize - 1) : i # j => q.mIds[i] # q.mIds[j]
  /\ \A i \in 0..(q.mSize - 1) : q.mIds[i] < q.mNextId

C26_InsertKeepsHeapOrder ==
  [][(/\ lastOp' = "insert"
      /\ ~undefined'
      /\ HeapOrdered(This)
      /\ DistinctBelowNext(This)) => HeapOrdered(This')]_vars

\* the fourth or a later node of a queue that has only been inserted into
\* has risen from the last index to the root
C26_Witness ==
  /\ lastOp = "insert"
  /\ ~threw
  /\ nPops = 0
  /\ counting
  /\ mSize >= 4
  /\ mIds[0] = mNextId - 1
  /\ HeapOrdered(This)

(***************************************************************************)
(* C27  The loops of insert and pop terminate.  Every exchange swim makes   *)
(* takes the node to a strictly smaller index, down to the root or to a     *)
(* parent it does not outrank; every exchange sink makes takes the node to  *)
(* a strictly greater index that is below size.  Checked for swim and sink  *)
(* started at every live index, and for the sink(0) a pop would run.        *)
(***************************************************************************)
RECURSIVE SwimDescends(_, _)
SwimDescends(q, i) ==
  LET parentIdx == parentIdxOf(i)
  IN IF parentIdx # i /\ greaterPriority(q, i, parentIdx)
     THEN /\ 0 <= parentIdx
          /\ parentIdx < i
          /\ SwimDescends(swapNodes(q, parentIdx, i), parentIdx)
     ELSE i = 0 \/ ~Outranks(Rank(q, i), Rank(q, (i - 1) \div 2))

RECURSIVE SinkAscends(_, _)
SinkAscends(q, i) ==
  LET dest == destIdx(q, i)
  IN /\ \A c \in {leftIdxOf(q, i), rightIdxOf(q, i)} :
          c = i \/ (i < c /\ c < q.mSize)
     /\ dest # i =>
          /\ i < dest
          /\ dest < q.mSize
          /\ SinkAscends(swapNodes(q, dest, i), dest)

C27_LoopsTerminate ==
  /\ \A i \in Live : SwimDescends(This, i) /\ SinkAscends(This, i)
  /\ mSize > 0 => SinkAscends(checkCapacity(Removed(This)), 0)

\* the only pop so far has taken the node inserted last from the root down
\* two levels or more
C27_Witness ==
  /\ lastOp = "pop"
  /\ counting
  /\ nPops = 1
  /\ prevSize = mSize + 1
  /\ \E i \in Live : i >= 3 /\ mIds[i] = mNextId - 1

(***************************************************************************)
(* C28  numResizes never decreases: it goes up by exactly 1 in every insert *)
(* that grows the arrays, every pop that shrinks them and every clear(),    *)
(* also a clear() of a queue whose capacity is the initial capacity         *)
(* already, and stays as it is in every other call.                         *)
(***************************************************************************)
C28_NumResizesCounts ==
  [][mNumResizes' =
       mNumResizes +
         (IF \/ lastOp' = "insert" /\ mCapacity' > mCapacity
             \/ lastOp' = "pop" /\ mCapacity' < mCapacity
             \/ lastOp' = "clear"
          THEN 1 ELSE 0)]_vars

\* clear() has been called on an empty queue of initial capacity that had
\* grown and shrunk before
C28_Witness ==
  /\ lastOp = "clear"
  /\ prevSize = 0
  /\ prevCapacity = mCapacity
  /\ mNumResizes >= 3

(***************************************************************************)
(* C29  What sink does at an index i of a queue whose live ids are          *)
(* pairwise distinct.  It leaves the queue as it is exactly when i has no   *)
(* left child, or has a left child only and that child does not outrank     *)
(* the node at i.  When i has two children it exchanges the node at i with  *)
(* the child that outranks the other, whatever the priority of the node at  *)
(* i; with a left child only that outranks it, with that child.             *)
(***************************************************************************)
DistinctIds(q) ==
  \A i, j \in 0..(q.mSize - 1) : i # j => q.mIds[i] # q.mIds[j]

\* sink(i), which made sunk of q, has exchanged the node at i with the one
\* at c first: the node of c is at i afterwards, since the later exchanges
\* are all below i
SinkTook(q, sunk, i, c) == NodeOf(sunk, i) = NodeOf(q, c) /\ sunk # q

SinkDoes(q, i) ==
  LET l == 2 * i + 1
      r == 2 * i + 2
      sunk == sink(q, i)
  IN IF l >= q.mSize THEN sunk = q
     ELSE IF r >= q.mSize
     THEN IF Outranks(Rank(q, l), Rank(q, i)) THEN SinkTook(q, sunk, i, l)
          ELSE sunk = q
     ELSE IF Outranks(Rank(q, r), Rank(q, l)) THEN SinkTook(q, sunk, i, r)
          ELSE SinkTook(q, sunk, i, l)

Placed(q, item, score) ==
  LET grown == IF q.mSize = q.mCapacity
               THEN resize(q, Wrap(q.mCapacity + q.mStepSize))
               ELSE q
      made == createNode(grown, grown.mSize, item, score, grown.mNextId)
  IN [made EXCEPT !.mNextId = Wrap(@ + 1), !.mSize = Wrap(@ + 1)]

C30_ReadsBelowSize ==
  [][/\ (lastOp' = "insert" /\ ~threw' /\ ~undefined') =>
          LET placed == Placed(This, lastArg'[1], lastArg'[2])
          IN \A k \in ReadsOfSwim(placed, placed.mSize - 1) :
                k < placed.mSize
     /\ (lastOp' = "pop" /\ mSize > 0) =>
          LET removed == checkCapacity(Removed(This))
          IN \A k \in ReadsOfSink(removed, 0) : k < removed.mSize]_vars

(***************************************************************************)
(* C31  Bounded slack: after every insert, pop and clear the capacity is    *)
(* at most the greater of initialCapacity and size + 2*stepSize; shrinking  *)
(* by one step in a pop is enough to keep the unused slots within two       *)
(* steps.                                                                   *)
(***************************************************************************)
Max(a, b) == IF a >= b THEN a ELSE b

C31_BoundedSlack ==
  ~undefined =>
    getCapacity(This) <=
      Max(mInitialCapacity, getSize(This) + 2 * mStepSize)

\* a pop has shrunk arrays that were two steps and one slot larger than
\* the nodes left, and the capacity is above the initial one still
C31_Witness ==
  /\ lastOp = "pop"
  /\ prevCapacity = mSize + 2 * mStepSize + 1
  /\ mCapacity = prevCapacity - mStepSize
  /\ mCapacity > mInitialCapacity
  /\ mStepSize = 2

(***************************************************************************)
(* C32  In every reachable state the capacity is the initial capacity plus  *)
(* a whole number (zero or more) of steps: capacity - initialCapacity is    *)
(* not negative and is a multiple of stepSize.                              *)
(***************************************************************************)
C32_CapacityOnStepGrid ==
  ~undefined =>
    /\ getCapacity(This) - mInitialCapacity >= 0
    /\ (getCapacity(This) - mInitialCapacity) % mStepSize = 0

\* a pop has shrunk the arrays by a step of two slots to a capacity that
\* is still above the initial one, after a clear() and new inserts
C32_Witness ==
  /\ lastOp = "pop"
  /\ mStepSize = 2
  /\ mCapacity = prevCapacity - mStepSize
  /\ mCapacity >= mInitialCapacity + mStepSize
  /\ ~counting

(***************************************************************************)
(* C33  An insert that fails because the ids are used up (nextId = MAX_ID,  *)
(* consolidation required) leaves every member of the queue as it was       *)
(* before the call: size, capacity, numResizes, nextId and the arrays with  *)
(* all live nodes, also when the queue was full at the call.                *)
(***************************************************************************)
C33_FailedInsertChangesNothing ==
  [][(lastOp' = "insert" /\ threw' /\ allocFails' = 0) =>
       UNCHANGED members]_vars

(***************************************************************************)
(* C34  In the two-array revision a resize carries every live node's item   *)
(* and priority over to the new arrays: the (item, priority) pairs of the   *)
(* live nodes after an insert that grew the arrays are those before it and  *)
(* the pair inserted, and after a pop that shrank them those before it      *)
(* without the pair of the root.                                            *)
(***************************************************************************)
Pairs == Items \X Priorities

PairCount(q, p) ==
  Cardinality({i \in 0..(q.mSize - 1) : <<q.mItems[i], q.mPriorities[i]>> = p})

C34_ResizeKeepsPriorities ==
  [][/\ (lastOp' = "insert" /\ mCapacity' # mCapacity) =>
          \A p \in Pairs :
             PairCount(This', p) =
               PairCount(This, p) + (IF p = lastArg' THEN 1 ELSE 0)
     /\ (lastOp' = "pop" /\ mCapacity' # mCapacity) =>
          \A p \in Pairs :
             PairCount(This', p) =
               PairCount(This, p) -
                 (IF p = <<mItems[0], mPriorities[0]>> THEN 1 ELSE 0)]_vars

====
